---------------------------- MODULE Spec2Model ----------------------------
(***************************************************************************)
(* A model of the Binance exporter: the exchange client of                 *)
(* internal/binance (request signing, request construction, the status     *)
(* gate, the two lock-guarded asset partitions) and the bootstrap in       *)
(* cmd/exporter/main.go.                                                    *)
(*                                                                         *)
(* Strings are sequences of one-character strings, so that splitting,      *)
(* formatting and URL assembly are computed and not assumed.  Slices are   *)
(* (ptr, len) headers over a heap of backing arrays, so that sharing of a  *)
(* backing array between the cache and a caller is something that can      *)
(* happen in the model.                                                    *)
(*                                                                         *)
(* Four specifications are given:                                          *)
(*   Spec     - a constructed client whose cache operations are called by  *)
(*              concurrent worker contexts                                 *)
(*   SpecSeq  - a constructed client called by one context: every          *)
(*              operation, request paths of any text, and a caller that    *)
(*              changes the slices it is handed                            *)
(*   SpecFair - readers and writers of one partition under fair            *)
(*              scheduling of the operations under way                     *)
(*   SpecMain - the process of cmd/exporter/main.go                        *)
(***************************************************************************)
EXTENDS Integers, Sequences, FiniteSets, TLC

(***************************************************************************)
(* Bounds of the model.                                                    *)
(***************************************************************************)
NumWorkers == 2
MaxAssets == 2
MaxClock == 1
MaxPathLen == 3
MaxMuts == 1

(***************************************************************************)
(* Program constants.                                                      *)
(***************************************************************************)
Online == 0
Maintenance == 1
StatusOK == 200
EndpointIndex == 1

endpoints ==
  << <<"h","t","t","p","s",":","/","/","a","p","i",".","b","i","n","a","n","c","e",".","c","o","m">>,
     <<"h","t","t","p","s",":","/","/","a","p","i","-","g","c","p",".","b","i","n","a","n","c","e",".","c","o","m">>,
     <<"h","t","t","p","s",":","/","/","a","p","i","1",".","b","i","n","a","n","c","e",".","c","o","m">>,
     <<"h","t","t","p","s",":","/","/","a","p","i","2",".","b","i","n","a","n","c","e",".","c","o","m">>,
     <<"h","t","t","p","s",":","/","/","a","p","i","3",".","b","i","n","a","n","c","e",".","c","o","m">>,
     <<"h","t","t","p","s",":","/","/","a","p","i","4",".","b","i","n","a","n","c","e",".","c","o","m">> >>

StatusPath ==
  <<"s","a","p","i","/","v","1","/","s","y","s","t","e","m","/","s","t","a","t","u","s">>
FundingPath ==
  <<"s","a","p","i","/","v","1","/","a","s","s","e","t","/","g","e","t","-","f","u","n","d","i","n","g","-","a","s","s","e","t">>
SpotPath ==
  <<"s","a","p","i","/","v","3","/","a","s","s","e","t","/","g","e","t","U","s","e","r","A","s","s","e","t">>

TimestampEq == <<"t","i","m","e","s","t","a","m","p","=">>
AmpTimestampEq == <<"&">> \o TimestampEq
AmpSignatureEq == <<"&","s","i","g","n","a","t","u","r","e","=">>

(***************************************************************************)
(* Strings.                                                                *)
(***************************************************************************)
\* The index of the first occurrence of character ch in s, 0 when absent.
RECURSIVE IndexFrom(_, _, _)
IndexFrom(s, ch, i) ==
  IF i > Len(s) THEN 0
  ELSE IF s[i] = ch THEN i
  ELSE IndexFrom(s, ch, i + 1)

Index(s, ch) == IndexFrom(s, ch, 1)

\* strings.Split(s, sep) for a one-character sep: every occurrence splits.
RECURSIVE Split(_, _)
Split(s, sep) ==
  LET i == Index(s, sep)
  IN IF i = 0 THEN <<s>>
     ELSE <<SubSeq(s, 1, i - 1)>> \o Split(SubSeq(s, i + 1, Len(s)), sep)

Digits == <<"0","1","2","3","4","5","6","7","8","9">>

\* fmt.Sprintf("%d", n) for n >= 0.
RECURSIVE FormatInt(_)
FormatInt(n) ==
  IF n < 10 THEN <<Digits[n + 1]>>
  ELSE FormatInt(n \div 10) \o <<Digits[(n % 10) + 1]>>

\* Whether s has t as a prefix at position i.
HasAt(s, t, i) ==
  /\ i >= 1
  /\ i + Len(t) - 1 <= Len(s)
  /\ SubSeq(s, i, i + Len(t) - 1) = t

\* The index of the last occurrence of t in s, 0 when absent.
LastIndexOf(s, t) ==
  LET hits == {i \in 1..Len(s) : HasAt(s, t, i)}
  IN IF hits = {} THEN 0 ELSE CHOOSE i \in hits : \A j \in hits : j <= i

HexDigits == {"0","1","2","3","4","5","6","7","8","9","a","b","c","d","e","f",
              "A","B","C","D","E","F"}

\* The two lowercase hexadecimal digits of a byte (its ASCII code).
HexByte(c) ==
  CASE c = "%" -> <<"2","5">>
    [] c = "&" -> <<"2","6">>
    [] c = "-" -> <<"2","d">>
    [] c = "/" -> <<"2","f">>
    [] c = "0" -> <<"3","0">>
    [] c = "1" -> <<"3","1">>
    [] c = "2" -> <<"3","2">>
    [] c = "3" -> <<"3","3">>
    [] c = "4" -> <<"3","4">>
    [] c = "5" -> <<"3","5">>
    [] c = "6" -> <<"3","6">>
    [] c = "7" -> <<"3","7">>
    [] c = "8" -> <<"3","8">>
    [] c = "9" -> <<"3","9">>
    [] c = ":" -> <<"3","a">>
    [] c = "=" -> <<"3","d">>
    [] c = "?" -> <<"3","f">>
    [] c = "A" -> <<"4","1">>
    [] c = "U" -> <<"5","5">>
    [] c = "a" -> <<"6","1">>
    [] c = "d" -> <<"6","4">>
    [] c = "e" -> <<"6","5">>
    [] c = "f" -> <<"6","6">>
    [] c = "g" -> <<"6","7">>
    [] c = "i" -> <<"6","9">>
    [] c = "k" -> <<"6","b">>
    [] c = "m" -> <<"6","d">>
    [] c = "n" -> <<"6","e">>
    [] c = "p" -> <<"7","0">>
    [] c = "r" -> <<"7","2">>
    [] c = "s" -> <<"7","3">>
    [] c = "t" -> <<"7","4">>
    [] c = "u" -> <<"7","5">>
    [] c = "v" -> <<"7","6">>
    [] c = "x" -> <<"7","8">>
    [] OTHER   -> <<"0","0">>

\* hex.EncodeToString.
RECURSIVE EncodeToString(_)
EncodeToString(b) ==
  IF b = <<>> THEN <<>>
  ELSE HexByte(Head(b)) \o EncodeToString(Tail(b))

(***************************************************************************)
(* The signer.  HMAC-SHA256 itself is not computed: the digest is an       *)
(* ideal keyed function, deterministic and different for different         *)
(* (key, payload) pairs, and it is rendered in lowercase hexadecimal.      *)
(***************************************************************************)
Mac(key, payload) == key \o <<":">> \o payload

generateSignature(PrivateKey, payload) ==
  EncodeToString(Mac(PrivateKey, payload))

(***************************************************************************)
(* signrequest: the parts of the signed URI and their assembly.            *)
(***************************************************************************)
\* The query text that is signed (newUri).
signPayload(uri, now) ==
  LET extracted == Split(uri, "?")
  IN IF Len(extracted) = 1
     THEN TimestampEq \o FormatInt(now)
     ELSE extracted[2] \o AmpTimestampEq \o FormatInt(now)

\* The part of the URI kept in front of the query (root).
signRoot(uri) ==
  LET extracted == Split(uri, "?")
  IN IF Len(extracted) = 1 THEN uri ELSE extracted[1]

\* A signrequest that signs the query without its timestamp.
signrequestUnstamped(uri, now, PrivateKey) ==
  LET extracted == Split(uri, "?")
      newUri == signPayload(uri, now)
      signature == generateSignature(PrivateKey,
                     IF Len(extracted) = 1 THEN <<>> ELSE extracted[2])
  IN signRoot(uri) \o <<"?">> \o newUri \o AmpSignatureEq \o signature

signrequest(uri, now, PrivateKey) ==
  LET newUri == signPayload(uri, now)
      signature == generateSignature(PrivateKey, newUri)
  IN signRoot(uri) \o <<"?">> \o newUri \o AmpSignatureEq \o signature

buildURL(url) == endpoints[EndpointIndex + 1] \o <<"/">> \o url

(***************************************************************************)
(* Requests.  http.NewRequestWithContext parses the URL and reports an     *)
(* error, with a nil request, when the path part (the text in front of     *)
(* the first '?') holds a '%' that is not followed by two hexadecimal      *)
(* digits; the query part is not validated.                                *)
(***************************************************************************)
NilReq == [nil |-> TRUE, method |-> "", url |-> <<>>, apikey |-> <<>>]

PathPart(url) ==
  LET i == Index(url, "?")
  IN IF i = 0 THEN url ELSE SubSeq(url, 1, i - 1)

BadEscape(s) ==
  \E i \in 1..Len(s) :
    /\ s[i] = "%"
    /\ ~(i + 2 <= Len(s) /\ s[i + 1] \in HexDigits /\ s[i + 2] \in HexDigits)

NewRequestWithContext(method, url) ==
  IF BadEscape(PathPart(url))
  THEN [r |-> NilReq, e |-> "parse"]
  ELSE [r |-> [nil |-> FALSE, method |-> method, url |-> url, apikey |-> <<>>],
        e |-> "nil"]

\* r.Header.Set("X-MBX-APIKEY", key) on the request just made: a nil
\* request makes it a nil-pointer dereference, which panics.
WithHeader(re, key) ==
  [panic  |-> re.r.nil,
   r      |-> IF re.r.nil THEN NilReq ELSE [re.r EXCEPT !.apikey = key],
   cancel |-> TRUE,
   e      |-> re.e]

buildGetRequest(url, sec) ==
  WithHeader(NewRequestWithContext("GET", buildURL(url)), sec.PublicKey)

\* A buildPostRequest that sends the private key in the header.
buildPostRequestLeaky(url, now, sec) ==
  WithHeader(NewRequestWithContext("POST",
               buildURL(signrequest(url, now, sec.PrivateKey))),
             sec.PrivateKey)

buildPostRequest(url, now, sec) ==
  WithHeader(NewRequestWithContext("POST",
               buildURL(signrequest(url, now, sec.PrivateKey))),
             sec.PublicKey)


(***************************************************************************)
(* The state.                                                              *)
(***************************************************************************)
VARIABLES
  env,       \* the environment: B_PRIVATE_KEY and B_PUBLIC_KEY
  security,  \* Client.security
  mpc,       \* the position of main
  ss,        \* main's ss
  err,       \* main's err
  hpc,       \* the position of each /metrics handler
  pc,        \* the position of each calling context inside a client operation
  op,        \* the client operation each context is in
  path,      \* the path handed to the request builder
  req,       \* the request built and not yet sent
  cancels,   \* the cancellation handle of the context's request
  resp,      \* what httpclient.Do returned
  ret,       \* what the operation returned
  loc,       \* the operation's local slice (assets or res)
  muts,      \* how many times the caller has changed a returned slice
  store,     \* Client.funding.Assets and Client.spot.Assets
  heap,      \* the backing arrays
  lock,      \* Client.funding.lock and Client.spot.lock
  issued,    \* the operations whose request has been handed to the network
  born,      \* per backing array, the sequence a successful refresh decoded into it
  calls      \* how many operations the worker contexts have entered

vars == <<env, security, mpc, ss, err, hpc, pc, op, path, req, cancels, resp,
          ret, loc, muts, store, heap, lock, issued, born, calls>>

mainVars == <<env, security, mpc, ss, err, hpc>>
libVars == <<env, security, mpc, ss, err, hpc, calls>>

Main == 0
Workers == 1..NumWorkers
Contexts == 0..NumWorkers
Parts == {"funding", "spot"}
None == 0 - 1

AssetVals == {"BTC", "ETH"}
Garbage == "?"

\* The asset lists the exchange answers with: one of each length, any two
\* of them different at every position they share.
AssetList(n) == [i \in 1..n |-> IF (i + n) % 2 = 0 THEN "BTC" ELSE "ETH"]
Bodies == {AssetList(n) : n \in 0..MaxAssets}

PathChars == {"x", "?", "%"}
Paths == UNION {[1..n -> PathChars] : n \in 0..MaxPathLen}
Clock == 0..MaxClock

KeyVals == {<<"k">>, <<"s">>}

RequestOps == {"GetSystemStatus", "GetFundingWallet", "GetUserAssets"}
ReadOps == {"GetFundingAssets", "GetSpotAssets"}
IsRefresh(o) == o \in {"GetFundingWallet", "GetUserAssets"}
IsRead(o) == o \in ReadOps

\* The path each operation passes to its request builder.
PathOf(o) ==
  CASE o = "GetSystemStatus"  -> StatusPath
    [] o = "GetFundingWallet" -> FundingPath
    [] o = "GetUserAssets"    -> SpotPath
    [] OTHER                  -> <<>>

\* The partition whose Assets field an operation reads or assigns.
DataOf(o) ==
  IF o \in {"GetFundingWallet", "GetFundingAssets"} THEN "funding" ELSE "spot"

\* A client whose spot operations take the funding partition's lock.
LockOfFundingOnly(o) == "funding"

\* The partition whose lock an operation takes.
LockOf(o) ==
  IF o \in {"GetFundingWallet", "GetFundingAssets"} THEN "funding" ELSE "spot"

(***************************************************************************)
(* Slices and the heap.  A slice header is (ptr, len); ptr 0 is the nil    *)
(* or zero-length slice.  Reading past the end of a backing array yields   *)
(* Garbage.                                                                *)
(***************************************************************************)
NumAddr == NumWorkers + 4
Addr == 1..NumAddr
NilSlice == [ptr |-> 0, len |-> 0]

Elems(h, s) ==
  [i \in 1..s.len |->
     IF s.ptr # 0 /\ i <= Len(h[s.ptr]) THEN h[s.ptr][i] ELSE Garbage]

Snapshot(p) == Elems(heap, store[p])

Refs(st, lc) ==
  ({st[p].ptr : p \in Parts} \cup {lc[c].ptr : c \in Contexts}) \ {0}

\* Arrays that nothing refers to are reclaimed.
Collect(h, st, lc) ==
  [a \in Addr |-> IF a \in Refs(st, lc) THEN h[a] ELSE <<>>]

\* The mark of a backing array that no successful refresh decoded.
NotDecoded == <<Garbage>>

Reborn(b, st, lc) ==
  [a \in Addr |-> IF a \in Refs(st, lc) THEN b[a] ELSE NotDecoded]

Alloc(st, lc) ==
  CHOOSE a \in Addr \ Refs(st, lc) : \A b \in Addr \ Refs(st, lc) : a <= b

(***************************************************************************)
(* Responses of the exchange.  kind "err" is a transport error (no         *)
(* response: connection failure or the 3 second deadline).  For an http    *)
(* response, ok says that the body decodes into the operation's target     *)
(* type; status is the body's "status" field (None when the body has no    *)
(* such field) and items is what the decoder leaves in the asset slice     *)
(* (on a decoding error, its best-effort partial result).                  *)
(***************************************************************************)
NoResp == [kind |-> "none", code |-> 0, ok |-> FALSE, status |-> None, items |-> <<>>]
TransportErr == [kind |-> "err", code |-> 0, ok |-> FALSE, status |-> None, items |-> <<>>]
Codes == {StatusOK, 503}

StatusResponses ==
  {[kind |-> "http", code |-> c, ok |-> TRUE, status |-> s, items |-> <<>>] :
     c \in Codes, s \in {None, 0, 1, 2}}
  \cup {[kind |-> "http", code |-> c, ok |-> FALSE, status |-> None, items |-> <<>>] :
     c \in Codes}

\* What a body that is no array of assets can leave in the slice: nothing
\* (a syntax error, an error object) or a best-effort partial result.
PartialItems == {<<>>, <<"BTC">>}

AssetResponses ==
  {[kind |-> "http", code |-> StatusOK, ok |-> TRUE, status |-> None, items |-> b] :
     b \in Bodies}
  \cup {[kind |-> "http", code |-> StatusOK, ok |-> FALSE, status |-> None, items |-> b] :
     b \in PartialItems}
  \cup {[kind |-> "http", code |-> 503, ok |-> TRUE, status |-> None, items |-> <<"BTC">>],
        [kind |-> "http", code |-> 503, ok |-> FALSE, status |-> None, items |-> <<>>]}

Responses(o) ==
  {TransportErr} \cup (IF o = "GetSystemStatus" THEN StatusResponses ELSE AssetResponses)

NoRet == [status |-> None, err |-> "none"]

\* A response whose body has been read and closed.
Closed(r) == [r EXCEPT !.items = <<>>]

\* json decoding of a status body into APIStatus: an absent field leaves
\* the zero value.
DecodedStatus(r) == IF r.status = None THEN 0 ELSE r.status

\* GetSystemStatus that hands back the decoded value beside a decode error.
StatusResultLoose(r) ==
  IF r.kind = "err" THEN [status |-> Maintenance, err |-> "transport"]
  ELSE IF ~r.ok THEN [status |-> DecodedStatus(r), err |-> "decode"]
  ELSE [status |-> DecodedStatus(r), err |-> "nil"]

\* What GetSystemStatus returns for the result of httpclient.Do.
StatusResult(r) ==
  IF r.kind = "err" THEN [status |-> Maintenance, err |-> "transport"]
  ELSE IF ~r.ok THEN [status |-> Maintenance, err |-> "decode"]
  ELSE [status |-> DecodedStatus(r), err |-> "nil"]

\* A refresh that does not look at the status code.
StorableAnyCode(r) == r.kind = "http" /\ r.ok

\* A refresh that does not look at the decoding error.
StorableAnyBody(r) == r.kind = "http" /\ r.code = StatusOK

\* Whether a refresh goes on to assign the partition.
Storable(r) == r.kind = "http" /\ r.code = StatusOK /\ r.ok

\* A successful refresh: a 200 response whose body decoded.
Successful(r) == r.kind = "http" /\ r.code = 200 /\ r.ok

(***************************************************************************)
(* sync.RWMutex: w is the context holding the writers' mutex (it has       *)
(* announced itself, and holds the lock once the readers have left),       *)
(* readers the contexts holding the read lock, rwait the readers blocked   *)
(* behind the writer.                                                      *)
(***************************************************************************)
FreeLock == [w |-> None, readers |-> {}, rwait |-> {}]

\* An RLock that does not wait for a writer.
RLockGrantedAlways(l) == TRUE

RLockGranted(l) == l.w = None

\* A Lock that does not wait for the writers' mutex.
LockGrantedAlways(l) == TRUE

LockGranted(l) == l.w = None

\* A refresh without its deferred Unlock.
UnlockForgotten(l) == l

\* lock.Unlock(): the writer leaves and the readers blocked behind it are
\* admitted.
Unlock(l) == [w |-> None, readers |-> l.readers \cup l.rwait, rwait |-> {}]

Alive == mpc # "exit" /\ \A c \in Contexts : pc[c] # "panic"

(***************************************************************************)
(* The steps of a client operation, taken by calling context c.  Steps     *)
(* that only compute on the operation's own locals are taken together      *)
(* with the next step that other contexts can see.                          *)
(***************************************************************************)
\* A context enters request operation o, which builds its request for
\* path u and hands it to the network: buildGetRequest / buildPostRequest,
\* the caller's handling of what they return (the debug line that reads
\* the request, the error check, and only then the deferred cancel), and
\* the start of httpclient.Do.
EnterRequest(c, o, u) ==
  /\ Alive
  /\ pc[c] = "idle"
  /\ o \in RequestOps
  /\ op' = [op EXCEPT ![c] = o]
  /\ path' = [path EXCEPT ![c] = u]
  /\ \E now \in Clock :
       LET b == IF o = "GetSystemStatus"
                THEN buildGetRequest(u, security)
                ELSE buildPostRequest(u, now, security)
       IN /\ cancels' = [cancels EXCEPT ![c] = "open"]
          /\ IF b.panic \/ b.r.nil
             THEN /\ pc' = [pc EXCEPT ![c] = "panic"]
                  /\ UNCHANGED <<req, ret, issued>>
             ELSE IF b.e # "nil"
             THEN /\ pc' = [pc EXCEPT ![c] = "ret"]
                  /\ ret' = [ret EXCEPT ![c] =
                               IF o = "GetSystemStatus"
                               THEN [status |-> Maintenance, err |-> b.e]
                               ELSE NoRet]
                  /\ UNCHANGED <<req, issued>>
             ELSE /\ pc' = [pc EXCEPT ![c] = "inflight"]
                  /\ req' = [req EXCEPT ![c] = b.r]
                  /\ issued' = issued \cup {o}
                  /\ UNCHANGED ret
  /\ UNCHANGED <<resp, loc, muts, store, heap, lock, born>>

\* httpclient.Do returns in GetSystemStatus; the body is decoded and the
\* operation returns (the deferred cancel runs).
DoStatus(c) ==
  /\ Alive
  /\ pc[c] = "inflight"
  /\ op[c] = "GetSystemStatus"
  /\ \E r \in Responses(op[c]) :
       /\ resp' = [resp EXCEPT ![c] = r]
       /\ ret' = [ret EXCEPT ![c] = StatusResult(r)]
  /\ pc' = [pc EXCEPT ![c] = "ret"]
  /\ cancels' = [cancels EXCEPT ![c] = "done"]
  /\ req' = [req EXCEPT ![c] = NilReq]
  /\ path' = [path EXCEPT ![c] = <<>>]
  /\ UNCHANGED <<op, loc, muts, store, heap, lock, issued, born>>

\* httpclient.Do returns in a refresh: on a transport error, a status
\* other than 200 or a decoding error the operation returns; otherwise the
\* decoded slice is held in assets and the operation goes on to the lock.
DoRefresh(c) ==
  /\ Alive
  /\ pc[c] = "inflight"
  /\ IsRefresh(op[c])
  /\ \E r \in Responses(op[c]) :
       IF Storable(r)
       THEN /\ pc' = [pc EXCEPT ![c] = "wlock"]
            /\ resp' = [resp EXCEPT ![c] = r]
            /\ UNCHANGED cancels
            /\ IF r.items = <<>>
               THEN UNCHANGED <<loc, heap, born>>
               ELSE LET a == Alloc(store, loc)
                    IN /\ loc' = [loc EXCEPT ![c] =
                                    [ptr |-> a, len |-> Len(r.items)]]
                       /\ heap' = [heap EXCEPT ![a] = r.items]
                       /\ born' = [born EXCEPT ![a] =
                                     IF Successful(r) THEN r.items
                                     ELSE NotDecoded]
       ELSE /\ pc' = [pc EXCEPT ![c] = "ret"]
            /\ resp' = [resp EXCEPT ![c] = Closed(r)]
            /\ cancels' = [cancels EXCEPT ![c] = "done"]
            /\ UNCHANGED <<loc, heap, born>>
  /\ req' = [req EXCEPT ![c] = NilReq]
  /\ path' = [path EXCEPT ![c] = <<>>]
  /\ UNCHANGED <<op, ret, muts, store, lock, issued>>

\* c.<partition>.Assets = assets, first word of the slice header.
StorePtr(c) ==
  LET st == [store EXCEPT ![DataOf(op[c])].ptr = loc[c].ptr]
  IN /\ store' = st
     /\ heap' = Collect(heap, st, loc)
     /\ born' = Reborn(born, st, loc)

\* lock.Lock(): take the writers' mutex and announce the writer.  The lock
\* is held at once when no reader holds it, and the assignment begins.
Lock(c) ==
  /\ Alive
  /\ pc[c] = "wlock"
  /\ LET p == LockOf(op[c])
     IN /\ LockGranted(lock[p])
        /\ lock' = [lock EXCEPT ![p].w = c]
        /\ IF lock[p].readers = {}
           THEN /\ pc' = [pc EXCEPT ![c] = "w2"]
                /\ StorePtr(c)
           ELSE /\ pc' = [pc EXCEPT ![c] = "wwait"]
                /\ UNCHANGED <<store, heap, born>>
  /\ UNCHANGED <<op, path, req, cancels, resp, ret, loc, muts, issued>>

\* The announced writer is woken when the last reader has left, and the
\* assignment begins.
LockWake(c) ==
  /\ Alive
  /\ pc[c] = "wwait"
  /\ lock[LockOf(op[c])].readers = {}
  /\ pc' = [pc EXCEPT ![c] = "w2"]
  /\ StorePtr(c)
  /\ UNCHANGED <<op, path, req, cancels, resp, ret, loc, muts, lock, issued>>

\* Second word of the slice header; then the deferred calls run (Unlock,
\* which admits the readers blocked behind the writer, Body.Close, cancel)
\* and the operation returns.
StoreLen(c) ==
  /\ Alive
  /\ pc[c] = "w2"
  /\ LET p  == LockOf(op[c])
         st == [store EXCEPT ![DataOf(op[c])].len = loc[c].len]
         lc == [loc EXCEPT ![c] = NilSlice]
     IN /\ store' = st
        /\ loc' = lc
        /\ heap' = Collect(heap, st, lc)
        /\ born' = Reborn(born, st, lc)
        /\ lock' = [lock EXCEPT ![p] = Unlock(@)]
        /\ pc' = [x \in Contexts |->
                    IF x = c THEN "ret"
                    ELSE IF x \in Unlock(lock[p]).readers \ lock[p].readers
                    THEN "rheld"
                    ELSE pc[x]]
  /\ cancels' = [cancels EXCEPT ![c] = "done"]
  /\ resp' = [resp EXCEPT ![c] = Closed(@)]
  /\ UNCHANGED <<op, path, req, ret, muts, issued>>

\* A context enters read operation o and calls lock.RLock(): the read
\* lock is taken unless a writer holds the lock or has announced itself,
\* and then the reader blocks behind it.
EnterRead(c, o) ==
  /\ Alive
  /\ pc[c] = "idle"
  /\ IsRead(o)
  /\ op' = [op EXCEPT ![c] = o]
  /\ LET p == LockOf(o)
     IN IF RLockGranted(lock[p])
        THEN /\ lock' = [lock EXCEPT ![p].readers = @ \cup {c}]
             /\ pc' = [pc EXCEPT ![c] = "rheld"]
        ELSE /\ lock' = [lock EXCEPT ![p].rwait = @ \cup {c}]
             /\ pc' = [pc EXCEPT ![c] = "rblocked"]
  /\ UNCHANGED <<path, req, cancels, resp, ret, loc, muts, store, heap,
                 issued, born>>

\* A read that moves the elements out of the cache's array.
CopyDraining(h, s, a) ==
  IF s.len = 0 THEN [slice |-> NilSlice, heap |-> h]
  ELSE [slice |-> [ptr |-> a, len |-> s.len],
        heap  |-> [h EXCEPT ![a] = Elems(h, s), ![s.ptr] = <<>>]]

\* A read that hands out the cache's own slice.
CopyAliased(h, s, a) == [slice |-> s, heap |-> h]

\* res = append(res, Assets...): a fresh backing array at address a holding
\* the elements of s; appending nothing to a nil slice leaves it nil.
Copy(h, s, a) ==
  IF s.len = 0 THEN [slice |-> NilSlice, heap |-> h]
  ELSE [slice |-> [ptr |-> a, len |-> s.len],
        heap  |-> [h EXCEPT ![a] = Elems(h, s)]]

\* A read that returns without its RUnlock.
RUnlockForgotten(l, c) == l

\* lock.RUnlock() by reader c.
RUnlock(l, c) == [l EXCEPT !.readers = @ \ {c}]

\* The copy under the read lock; then the deferred RUnlock and the return.
CopyOut(c) ==
  /\ Alive
  /\ pc[c] = "rheld"
  /\ LET p  == LockOf(op[c])
         cp == Copy(heap, store[DataOf(op[c])], Alloc(store, loc))
     IN /\ loc' = [loc EXCEPT ![c] = cp.slice]
        /\ heap' = cp.heap
        /\ lock' = [lock EXCEPT ![p] = RUnlock(@, c)]
  /\ pc' = [pc EXCEPT ![c] = "ret"]
  /\ UNCHANGED <<op, path, req, cancels, resp, ret, muts, store, issued, born>>

(***************************************************************************)
(* What the caller of a read may do with the slice it was handed.          *)
(***************************************************************************)
\* res[i] = a
CallerOverwrite(c) ==
  /\ Alive
  /\ pc[c] = "ret" /\ IsRead(op[c]) /\ muts[c] < MaxMuts
  /\ \E i \in 1..loc[c].len, a \in AssetVals :
       /\ heap[loc[c].ptr][i] # a
       /\ heap' = [heap EXCEPT ![loc[c].ptr][i] = a]
  /\ muts' = [muts EXCEPT ![c] = @ + 1]
  /\ UNCHANGED <<pc, op, path, req, cancels, resp, ret, loc, store, lock,
                 issued, born>>

\* res = append(res, a): in place when the backing array has room past
\* len, else into a fresh array.
CallerAppend(c) ==
  /\ Alive
  /\ pc[c] = "ret" /\ IsRead(op[c]) /\ muts[c] < MaxMuts
  /\ \E a \in AssetVals :
       LET s == loc[c]
       IN IF s.ptr # 0 /\ s.len < Len(heap[s.ptr])
          THEN /\ heap' = [heap EXCEPT ![s.ptr][s.len + 1] = a]
               /\ loc' = [loc EXCEPT ![c].len = s.len + 1]
               /\ UNCHANGED born
          ELSE LET n  == Alloc(store, loc)
                   lc == [loc EXCEPT ![c] = [ptr |-> n, len |-> s.len + 1]]
                   h  == [heap EXCEPT ![n] = Elems(heap, s) \o <<a>>]
               IN /\ loc' = lc
                  /\ heap' = Collect(h, store, lc)
                  /\ born' = Reborn(born, store, lc)
  /\ muts' = [muts EXCEPT ![c] = @ + 1]
  /\ UNCHANGED <<pc, op, path, req, cancels, resp, ret, store, lock, issued>>

\* res = res[:k]
CallerTruncate(c) ==
  /\ Alive
  /\ pc[c] = "ret" /\ IsRead(op[c]) /\ muts[c] < MaxMuts
  /\ \E k \in 0..(loc[c].len - 1) :
       loc' = [loc EXCEPT ![c].len = k]
  /\ muts' = [muts EXCEPT ![c] = @ + 1]
  /\ UNCHANGED <<pc, op, path, req, cancels, resp, ret, store, heap, lock,
                 issued, born>>

\* The caller is done with what the operation returned.
Leave(c) ==
  /\ Alive
  /\ pc[c] = "ret"
  /\ LET lc == [loc EXCEPT ![c] = NilSlice]
     IN /\ loc' = lc
        /\ heap' = Collect(heap, store, lc)
        /\ born' = Reborn(born, store, lc)
  /\ pc' = [pc EXCEPT ![c] = "idle"]
  /\ op' = [op EXCEPT ![c] = "none"]
  /\ cancels' = [cancels EXCEPT ![c] = "none"]
  /\ resp' = [resp EXCEPT ![c] = NoResp]
  /\ ret' = [ret EXCEPT ![c] = NoRet]
  /\ muts' = [muts EXCEPT ![c] = 0]
  /\ UNCHANGED <<path, req, store, lock, issued>>

(***************************************************************************)
(* Spec: a constructed client used by concurrent worker contexts.          *)
(***************************************************************************)
InitContexts ==
  /\ hpc = [w \in Workers |-> "idle"]
  /\ pc = [c \in Contexts |-> "idle"]
  /\ op = [c \in Contexts |-> "none"]
  /\ path = [c \in Contexts |-> <<>>]
  /\ req = [c \in Contexts |-> NilReq]
  /\ cancels = [c \in Contexts |-> "none"]
  /\ resp = [c \in Contexts |-> NoResp]
  /\ ret = [c \in Contexts |-> NoRet]
  /\ loc = [c \in Contexts |-> NilSlice]
  /\ muts = [c \in Contexts |-> 0]
  /\ lock = [p \in Parts |-> FreeLock]
  /\ calls = 0

InitCredentials ==
  /\ env = [B_PRIVATE_KEY |-> <<"s">>, B_PUBLIC_KEY |-> <<"k">>]
  /\ security = [PublicKey |-> env.B_PUBLIC_KEY, PrivateKey |-> env.B_PRIVATE_KEY]
  /\ mpc = "lib"
  /\ ss = None
  /\ err = "none"

\* The client as NewBinanceClient leaves it: both partitions empty.
InitFresh ==
  /\ InitCredentials
  /\ InitContexts
  /\ issued = {}
  /\ store = [p \in Parts |-> NilSlice]
  /\ heap = [a \in Addr |-> <<>>]
  /\ born = [a \in Addr |-> NotDecoded]

\* What the partitions can hold when serving begins: nothing (the refreshes
\* at startup failed, or the account is empty), or a full list each.
SeedBodies == {<<>>, AssetList(MaxAssets)}

\* The address of the array a partition holds when serving begins.
SeedAddr(p) == IF p = "funding" THEN 1 ELSE 2

\* The client as serving begins: main has made its three calls, and the
\* partitions hold what the refreshes at startup left there.
Init ==
  /\ InitCredentials
  /\ InitContexts
  /\ issued = RequestOps
  /\ \E f \in {[p \in Parts |-> b] : b \in SeedBodies} :
       /\ store = [p \in Parts |->
                     IF f[p] = <<>> THEN NilSlice
                     ELSE [ptr |-> SeedAddr(p), len |-> Len(f[p])]]
       /\ heap = [a \in Addr |->
                    IF \E p \in Parts : a = SeedAddr(p) THEN f[CHOOSE p \in Parts : a = SeedAddr(p)]
                    ELSE <<>>]
       /\ born = [a \in Addr |->
                    IF \E p \in Parts : a = SeedAddr(p) /\ f[p] # <<>>
                    THEN f[CHOOSE p \in Parts : a = SeedAddr(p)]
                    ELSE NotDecoded]

\* Each worker context makes one call (an incoming scrape or a scheduled
\* refresh).  The contexts are interchangeable, so they are taken to enter
\* in the order of their numbers; they run in any interleaving after that.
WorkerRead(c) ==
  /\ calls = c - 1
  /\ calls' = calls + 1
  /\ \E o \in ReadOps : EnterRead(c, o)
  /\ UNCHANGED mainVars

WorkerRefresh(c) ==
  /\ calls = c - 1
  /\ calls' = calls + 1
  /\ \E o \in {"GetFundingWallet", "GetUserAssets"} : EnterRequest(c, o, PathOf(o))
  /\ UNCHANGED mainVars

Next ==
  \/ \E c \in Workers : WorkerRead(c)
  \/ \E c \in Workers : WorkerRefresh(c)
  \/ \E c \in Workers : DoRefresh(c) /\ UNCHANGED libVars
  \/ \E c \in Workers : Lock(c) /\ UNCHANGED libVars
  \/ \E c \in Workers : LockWake(c) /\ UNCHANGED libVars
  \/ \E c \in Workers : StoreLen(c) /\ UNCHANGED libVars
  \/ \E c \in Workers : CopyOut(c) /\ UNCHANGED libVars
  \/ \E c \in Workers : Leave(c) /\ UNCHANGED libVars

Spec == Init /\ [][Next]_vars

\* A step of an operation that is under way: the network answers or the
\* 3 second deadline passes, a free lock is granted, a goroutine that can
\* run does run.
Progress ==
  \E c \in Workers :
    /\ DoRefresh(c) \/ Lock(c) \/ LockWake(c) \/ StoreLen(c) \/ CopyOut(c)
    /\ UNCHANGED libVars

\* Fair scheduling: while some operation under way can take a step, one of
\* them does.  (The scheduler's fairness to each goroutine implies it.)
\* Whether a caller calls, or lets go of what it got, is up to the caller.
Fairness == WF_vars(Progress)

\* SpecFair: the worker contexts all call the operations of one partition,
\* readers and writers contending for its lock, under fair scheduling.
ContendedRead == "GetFundingAssets"
ContendedRefresh == "GetFundingWallet"

ContendRead(c) ==
  /\ calls = c - 1
  /\ calls' = calls + 1
  /\ EnterRead(c, ContendedRead)
  /\ UNCHANGED mainVars

ContendRefresh(c) ==
  /\ calls = c - 1
  /\ calls' = calls + 1
  /\ EnterRequest(c, ContendedRefresh, PathOf(ContendedRefresh))
  /\ UNCHANGED mainVars

NextFair ==
  \/ \E c \in Workers : ContendRead(c)
  \/ \E c \in Workers : ContendRefresh(c)
  \/ Progress
  \/ \E c \in Workers : Leave(c) /\ UNCHANGED libVars

SpecFair == Init /\ [][NextFair]_vars /\ Fairness

(***************************************************************************)
(* SpecSeq: a constructed client called by one context.  The request       *)
(* operations are entered with their own path or with any path over        *)
(* PathChars, the wall clock reads any value of Clock, and the caller of   *)
(* a read may change the slice it was handed.                              *)
(***************************************************************************)
SeqRequest ==
  /\ \E o \in RequestOps : \E u \in Paths \cup {PathOf(o)} : EnterRequest(Main, o, u)
  /\ UNCHANGED libVars

SeqRead ==
  /\ \E o \in ReadOps : EnterRead(Main, o)
  /\ UNCHANGED libVars

NextSeq ==
  \/ SeqRequest
  \/ SeqRead
  \/ DoStatus(Main) /\ UNCHANGED libVars
  \/ DoRefresh(Main) /\ UNCHANGED libVars
  \/ Lock(Main) /\ UNCHANGED libVars
  \/ StoreLen(Main) /\ UNCHANGED libVars
  \/ CopyOut(Main) /\ UNCHANGED libVars
  \/ CallerOverwrite(Main) /\ UNCHANGED libVars
  \/ CallerAppend(Main) /\ UNCHANGED libVars
  \/ CallerTruncate(Main) /\ UNCHANGED libVars
  \/ Leave(Main) /\ UNCHANGED libVars

SpecSeq == InitFresh /\ [][NextSeq]_vars

(***************************************************************************)
(* SpecMain: the process of cmd/exporter/main.go.  main is context Main;   *)
(* each worker context runs one /metrics handler at a time.                *)
(***************************************************************************)
InitMain ==
  /\ env \in [B_PRIVATE_KEY : KeyVals \cup {<<>>}, B_PUBLIC_KEY : KeyVals \cup {<<>>}]
  /\ security = [PublicKey |-> <<>>, PrivateKey |-> <<>>]
  /\ mpc = "new"
  /\ ss = None
  /\ err = "none"
  /\ InitContexts
  /\ issued = {}
  /\ store = [p \in Parts |-> NilSlice]
  /\ heap = [a \in Addr |-> <<>>]
  /\ born = [a \in Addr |-> NotDecoded]

clientVars == <<pc, op, path, req, cancels, resp, ret, loc, muts, store, heap,
                lock, issued, born>>

\* A constructor that checks the private key only.
MissingKeyPrivateOnly(privKey, pubkey) == Len(privKey) = 0

\* The constructor's two checks of the keys it read from the environment.
MissingKey(privKey, pubkey) == Len(privKey) = 0 \/ Len(pubkey) = 0

\* NewBinanceClient: the process exits when a key is missing from the
\* environment.
NewBinanceClient ==
  /\ mpc = "new"
  /\ LET privKey == env.B_PRIVATE_KEY
         pubkey  == env.B_PUBLIC_KEY
     IN IF MissingKey(privKey, pubkey)
        THEN /\ mpc' = "exit"
             /\ UNCHANGED security
        ELSE /\ mpc' = "gate"
             /\ security' = [PublicKey |-> pubkey, PrivateKey |-> privKey]
  /\ UNCHANGED <<env, ss, err, hpc, calls>>
  /\ UNCHANGED clientVars

\* A gate that lets every answer without an error through.
GateOpenErrOnly(s, e) == e = "nil"

\* main's two checks of what GetSystemStatus returned: whether startup goes
\* on.
GateOpen(s, e) == e = "nil" /\ s = Online

\* A main that refreshes the spot partition before the funding partition.
MainOpSpotFirst ==
  CASE mpc = "gate"    -> "GetSystemStatus"
    [] mpc = "funding" -> "GetUserAssets"
    [] mpc = "spot"    -> "GetFundingWallet"
    [] OTHER           -> "none"

\* The operation main is calling at each position.
MainOp ==
  CASE mpc = "gate"    -> "GetSystemStatus"
    [] mpc = "funding" -> "GetFundingWallet"
    [] mpc = "spot"    -> "GetUserAssets"
    [] OTHER           -> "none"

\* main calls the operation of its position.
MainCall ==
  /\ mpc \in {"gate", "funding", "spot"}
  /\ EnterRequest(Main, MainOp, PathOf(MainOp))
  /\ UNCHANGED libVars

\* ss, err := bc.GetSystemStatus() has returned: main exits unless the
\* gate is open.
MainGate ==
  /\ mpc = "gate"
  /\ pc[Main] = "ret"
  /\ ss' = ret[Main].status
  /\ err' = ret[Main].err
  /\ mpc' = IF GateOpen(ret[Main].status, ret[Main].err) THEN "funding" ELSE "exit"
  /\ Leave(Main)
  /\ UNCHANGED <<env, security, hpc, calls>>

\* A main that ends the process when a refresh has failed.
AfterRefreshFatal(m) ==
  IF resp[Main].kind = "err" \/ resp[Main].code # StatusOK \/ ~resp[Main].ok
  THEN "exit"
  ELSE IF m = "funding" THEN "spot" ELSE "serving"

\* Where main goes when a refresh has returned: the refreshes return
\* nothing, and main's next statement follows.
AfterRefresh(m) == IF m = "funding" THEN "spot" ELSE "serving"

\* A refresh called by main has returned: main goes on, to the next refresh
\* or to e.Start.
MainNext ==
  /\ mpc \in {"funding", "spot"}
  /\ pc[Main] = "ret"
  /\ mpc' = AfterRefresh(mpc)
  /\ Leave(Main)
  /\ UNCHANGED <<env, security, ss, err, hpc, calls>>

\* A scrape of /metrics arrives: the handler calls GetFundingAssets.
HandlerFunding(w) ==
  /\ mpc = "serving"
  /\ hpc[w] = "idle"
  /\ hpc' = [hpc EXCEPT ![w] = "funding"]
  /\ EnterRead(w, "GetFundingAssets")
  /\ UNCHANGED <<env, security, mpc, ss, err, calls>>

\* The handler has its funding assets.
HandlerGotFunding(w) ==
  /\ hpc[w] = "funding"
  /\ pc[w] = "ret"
  /\ hpc' = [hpc EXCEPT ![w] = "between"]
  /\ Leave(w)
  /\ UNCHANGED <<env, security, mpc, ss, err, calls>>

\* The handler calls GetSpotAssets.
HandlerSpot(w) ==
  /\ hpc[w] = "between"
  /\ hpc' = [hpc EXCEPT ![w] = "spot"]
  /\ EnterRead(w, "GetSpotAssets")
  /\ UNCHANGED <<env, security, mpc, ss, err, calls>>

\* The handler has its spot assets and answers 200 "OK".
HandlerDone(w) ==
  /\ hpc[w] = "spot"
  /\ pc[w] = "ret"
  /\ hpc' = [hpc EXCEPT ![w] = "idle"]
  /\ Leave(w)
  /\ UNCHANGED <<env, security, mpc, ss, err, calls>>

NextMain ==
  \/ NewBinanceClient
  \/ MainCall
  \/ DoStatus(Main) /\ UNCHANGED libVars
  \/ DoRefresh(Main) /\ UNCHANGED libVars
  \/ Lock(Main) /\ UNCHANGED libVars
  \/ StoreLen(Main) /\ UNCHANGED libVars
  \/ MainGate
  \/ MainNext
  \/ \E w \in Workers : HandlerFunding(w)
  \/ \E w \in Workers : HandlerGotFunding(w)
  \/ \E w \in Workers : HandlerSpot(w)
  \/ \E w \in Workers : HandlerDone(w)
  \/ \E w \in Workers : CopyOut(w) /\ UNCHANGED libVars

SpecMain == InitMain /\ [][NextMain]_vars

(***************************************************************************)
(* Properties of the cache under concurrent callers (Spec).                *)
(***************************************************************************)
\* The step in which read operation of context c copies and returns.
ReadReturns(c) == pc[c] = "rheld" /\ pc'[c] = "ret"

\* The sequence a read has handed to its caller.
Returned(c) == Elems(heap, loc[c])

\* The complete sequence partition p was last assigned: the initial empty
\* sequence, or what a successful refresh decoded into the array it holds.
Assigned(p) == IF store[p].ptr = 0 THEN <<>> ELSE born[store[p].ptr]

\* A refresh whose response is a transport error, a status other than 200
\* or a body that does not decode.
Failed(r) == r.kind = "err" \/ (r.kind = "http" /\ (r.code # 200 \/ ~r.ok))

\* C1: under any interleaving of refreshes and reads, what a read returns is
\* the initial empty sequence or the complete sequence that one successful
\* refresh decoded and assigned to the partition: never a prefix of one, a
\* mixture of two, or elements no refresh decoded.
C1_ReadReturnsCompleteSnapshot ==
  [][\A c \in Contexts :
       ReadReturns(c) =>
         /\ Returned(c)' = Assigned(DataOf(op[c]))
         /\ Returned(c)' # NotDecoded
         /\ Returned(c)' = <<>> \/ Returned(c)' \in Bodies]_vars

\* C1 happens: a read returns a non-empty sequence while another context is
\* in the middle of a refresh of the same partition.
C1_Witness ==
  \E c, d \in Contexts :
    /\ pc[c] = "ret" /\ IsRead(op[c]) /\ loc[c].len > 0
    /\ IsRefresh(op[d]) /\ DataOf(op[d]) = DataOf(op[c])
    /\ pc[d] \in {"wlock", "wwait", "w2"}

\* The steps of a refresh call that ends in failure: its entry, and its
\* return with a failed response.
FailingRefreshStep(c) ==
  /\ IsRefresh(op'[c])
  /\ pc[c] # pc'[c]
  /\ \/ pc'[c] = "inflight"
     \/ pc'[c] = "ret" /\ Failed(resp'[c])

\* C2: a refresh that ends in a transport error, a status other than 200 or
\* a decode error never changes a partition (header or elements), and a read
\* returns exactly what the partition holds.
C2_StaleOnFailure ==
  [][\A c \in Contexts :
       /\ FailingRefreshStep(c) =>
            /\ store' = store
            /\ \A p \in Parts : Snapshot(p)' = Snapshot(p)
       /\ ReadReturns(c) =>
            /\ Returned(c)' = Snapshot(DataOf(op[c]))
            /\ Snapshot(DataOf(op[c]))' = Snapshot(DataOf(op[c]))]_vars

\* C2 happens: a refresh of a partition that holds a snapshot has returned
\* with a response whose status is not 200.
C2_Witness ==
  \E c \in Contexts :
    /\ pc[c] = "ret" /\ IsRefresh(op[c]) /\ Failed(resp[c])
    /\ resp[c].kind = "http" /\ resp[c].code # 200
    /\ Snapshot(DataOf(op[c])) # <<>>

\* Context c holds partition p's lock, or waits for it.
HoldsLock(c, p) == lock[p].w = c \/ c \in lock[p].readers
WaitsLock(c, p) == c \in lock[p].rwait

\* A write to partition p holds or waits for the write lock.
WriteInProgress(p) ==
  \E c \in Contexts :
    IsRefresh(op[c]) /\ DataOf(op[c]) = p /\ pc[c] \in {"wwait", "w2"}

\* C10: no context holds or waits for both partitions' locks, and a read of
\* a partition can take its read lock whenever no write to that same
\* partition holds or waits for the lock, whatever a write to the other
\* partition is doing.
C10_PartitionIndependence ==
  /\ \A c \in Contexts :
       Cardinality({p \in Parts : HoldsLock(c, p) \/ WaitsLock(c, p)}) <= 1
  /\ \A o \in ReadOps :
       ~WriteInProgress(DataOf(o)) => RLockGranted(lock[LockOf(o)])

\* C10 happens: a writer holds one partition's lock while a reader holds the
\* other partition's read lock.
C10_Witness ==
  \E p, q \in Parts :
    /\ p # q
    /\ lock[p].w # None /\ WriteInProgress(p)
    /\ lock[q].readers # {}

(***************************************************************************)
(* Properties of single operations (SpecSeq).                              *)
(***************************************************************************)
\* C4: GetSystemStatus, once httpclient.Do has answered, returns
\* (Maintenance, an error) on a transport error, (Maintenance, an error) on
\* a body that does not decode, and (the status in the body, nil) on a body
\* that decodes; an error is never paired with Online.
C4_StatusOutcomeTable ==
  \A c \in Contexts :
    (pc[c] = "ret" /\ op[c] = "GetSystemStatus" /\ resp[c].kind # "none") =>
      /\ resp[c].kind = "err" =>
           ret[c].status = Maintenance /\ ret[c].err \notin {"nil", "none"}
      /\ (resp[c].kind = "http" /\ ~resp[c].ok) =>
           ret[c].status = Maintenance /\ ret[c].err \notin {"nil", "none"}
      /\ (resp[c].kind = "http" /\ resp[c].ok) =>
           /\ ret[c].err = "nil"
           /\ resp[c].status # None => ret[c].status = resp[c].status
      /\ ret[c].err # "nil" => ret[c].status # Online

\* C4 happens: GetSystemStatus has returned on a body that does not decode.
C4_Witness ==
  \E c \in Contexts :
    /\ pc[c] = "ret" /\ op[c] = "GetSystemStatus"
    /\ resp[c].kind = "http" /\ ~resp[c].ok
    /\ ret[c].err = "decode"

\* The step in which the caller of a read changes the slice it was handed.
CallerMutates(c) == muts'[c] = muts[c] + 1

\* C5: the slice a read returns shares no backing array with the cache, no
\* change the caller makes to it (overwriting, appending, truncating)
\* changes a partition, and a read returns what the partition holds.
C5_DefensiveCopy ==
  [][\A c \in Contexts :
       /\ CallerMutates(c) =>
            /\ store' = store
            /\ \A p \in Parts : Snapshot(p)' = Snapshot(p)
       /\ ReadReturns(c) =>
            /\ Returned(c)' = Snapshot(DataOf(op[c]))'
            /\ \A p \in Parts : loc'[c].ptr # 0 => loc'[c].ptr # store'[p].ptr]_vars

\* C5 happens: the caller has changed the slice a read of a non-empty
\* partition returned, and its slice now differs from the partition.
C5_Witness ==
  \E c \in Contexts :
    /\ pc[c] = "ret" /\ IsRead(op[c]) /\ muts[c] > 0
    /\ Snapshot(DataOf(op[c])) # <<>>
    /\ Returned(c) # Snapshot(DataOf(op[c]))

\* C6: when a request operation has ended, by returning or by crashing, the
\* cancellation handle its request builder created has been invoked.
C6_CancelOnEveryExit ==
  \A c \in Contexts :
    (pc[c] \in {"ret", "panic"} /\ op[c] \in RequestOps) => cancels[c] = "done"

\* The text of url behind the endpoint and its "/".
SignedUri(url) ==
  SubSeq(url, Len(endpoints[EndpointIndex + 1]) + 2, Len(url))

\* The text of a signed URI in front of its first '?'.
UriRoot(u) == SubSeq(u, 1, Index(u, "?") - 1)

\* The text of a signed URI between its first '?' and its "&signature=".
UriQuery(u) == SubSeq(u, Index(u, "?") + 1, LastIndexOf(u, AmpSignatureEq) - 1)

\* The text of a signed URI behind its "&signature=".
UriSignature(u) ==
  SubSeq(u, LastIndexOf(u, AmpSignatureEq) + Len(AmpSignatureEq), Len(u))

\* The root path and the existing query of a path split on its first '?'.
FirstSplitRoot(u) ==
  IF Index(u, "?") = 0 THEN u ELSE SubSeq(u, 1, Index(u, "?") - 1)
FirstSplitQuery(u) == SubSeq(u, Index(u, "?") + 1, Len(u))

\* C7: the request of a signed POST carries the path split on its first
\* '?': the root is the path in front of it (the whole path when there is
\* none) and the signed query is "timestamp=<ts>", or everything behind the
\* first '?' followed by "&timestamp=<ts>".
C7_SplitOnFirstQuestionMark ==
  \A c \in Contexts :
    (pc[c] = "inflight" /\ IsRefresh(op[c])) =>
      LET u == SignedUri(req[c].url)
      IN /\ UriRoot(u) = FirstSplitRoot(path[c])
         /\ \E now \in Clock :
              UriQuery(u) =
                IF Index(path[c], "?") = 0
                THEN TimestampEq \o FormatInt(now)
                ELSE FirstSplitQuery(path[c]) \o AmpTimestampEq \o FormatInt(now)

\* C8: the URL of a signed POST is the endpoint, "/", a root, "?", a query,
\* "&signature=" and a signature; the signature is the signer's digest,
\* under the private key, of exactly that query, which ends with the
\* timestamp; and the X-MBX-APIKEY header is the public key.
C8_SignedUrlAssembly ==
  \A c \in Contexts :
    (pc[c] = "inflight" /\ IsRefresh(op[c])) =>
      LET u == SignedUri(req[c].url)
      IN /\ req[c].method = "POST"
         /\ req[c].url = endpoints[EndpointIndex + 1] \o <<"/">> \o u
         /\ Index(u, "?") > 0 /\ LastIndexOf(u, AmpSignatureEq) > Index(u, "?")
         /\ u = UriRoot(u) \o <<"?">> \o UriQuery(u) \o AmpSignatureEq \o UriSignature(u)
         /\ UriSignature(u) = generateSignature(security.PrivateKey, UriQuery(u))
         /\ \E now \in Clock :
              LET t == TimestampEq \o FormatInt(now)
              IN HasAt(UriQuery(u), t, Len(UriQuery(u)) - Len(t) + 1)
         /\ req[c].apikey = security.PublicKey
         /\ security.PublicKey # security.PrivateKey

\* C8 happens: a signed POST for a path that already has a query is in
\* flight.
C8_Witness ==
  \E c \in Contexts :
    /\ pc[c] = "inflight" /\ IsRefresh(op[c])
    /\ Index(path[c], "?") > 1
    /\ Index(path[c], "?") < Len(path[c])

\* C9: no request operation crashes: a request that cannot be constructed
\* makes the operation return, with the partitions as they were.
C9_ConstructionFailureIsErrorValue ==
  \A c \in Contexts : pc[c] # "panic"

(***************************************************************************)
(* Properties of the process (SpecMain).                                   *)
(***************************************************************************)
\* main has gone past the gate: it has called a refresh, reached e.Start,
\* or a handler is running.
PastGate ==
  \/ mpc \in {"funding", "spot", "serving"}
  \/ issued \cap {"GetFundingWallet", "GetUserAssets"} # {}
  \/ \E w \in Workers : hpc[w] # "idle"

\* GetSystemStatus has returned to main.
GateAnswered == err # "none"

\* C3: the process is past the gate only if GetSystemStatus returned Online
\* with a nil error; after every other return it has exited, having issued
\* no asset refresh and served nothing.
C3_GateSemantics ==
  /\ PastGate => (ss = Online /\ err = "nil")
  /\ (GateAnswered /\ ~(ss = Online /\ err = "nil")) =>
       /\ mpc = "exit"
       /\ issued \subseteq {"GetSystemStatus"}
       /\ \A w \in Workers : hpc[w] = "idle" /\ pc[w] = "idle"

\* C3 happens: the gate returned Online with no error and a handler is
\* serving a scrape.
C3_Witness ==
  /\ mpc = "serving" /\ ss = Online /\ err = "nil"
  /\ \E w \in Workers : hpc[w] = "spot"

\* C3 happens on the other side too: the gate returned a status that is
\* neither Online nor Maintenance, with no error, and the process exited.
C3_WitnessRefused ==
  mpc = "exit" /\ err = "nil" /\ ss \notin {Online, Maintenance, None}

(***************************************************************************)
(* Writers of one partition (Spec).                                        *)
(***************************************************************************)
\* The contexts that hold partition p's write lock and are assigning.
Assigning(p) ==
  {c \in Contexts : IsRefresh(op[c]) /\ LockOf(op[c]) = p /\ pc[c] = "w2"}

\* The step in which the refresh of context c releases the write lock.
WriteReturns(c) == pc[c] = "w2" /\ pc'[c] = "ret"

\* C11: the writes of a partition are serialized (one context assigns at a
\* time, and it is the holder of the write lock; nothing else changes the
\* partition), and when a refresh releases the lock the partition holds
\* exactly what that refresh decoded: whichever refresh took the lock last
\* leaves its snapshot, in whatever order the refreshes were started.
C11_LastWriterWins ==
  [][/\ \A p \in Parts :
          /\ Cardinality(Assigning(p)) <= 1
          /\ \A c \in Assigning(p) : lock[p].w = c
          /\ store'[p] # store[p] =>
               \E c \in Contexts :
                 /\ IsRefresh(op[c]) /\ DataOf(op[c]) = p
                 /\ lock'[p].w = c \/ lock[p].w = c
     /\ \A c \in Contexts :
          WriteReturns(c) =>
            /\ Snapshot(DataOf(op[c]))' = resp[c].items
            /\ Assigned(DataOf(op[c]))' = resp[c].items]_vars

\* C11 happens: of two successful refreshes of one partition, the one that
\* was started later has completed, and the one started earlier holds the
\* write lock and is assigning its different snapshot over it.
C11_Witness ==
  \E c, d \in Contexts :
    /\ c < d
    /\ IsRefresh(op[c]) /\ op[d] = op[c]
    /\ pc[d] = "ret" /\ Successful(resp[d])
    /\ pc[c] = "w2" /\ lock[LockOf(op[c])].w = c
    /\ resp[c].items # <<>>
    /\ store[DataOf(op[c])].len # Len(resp[c].items)

(***************************************************************************)
(* Progress (SpecFair).                                                    *)
(***************************************************************************)
\* Context c is inside a read call.
Reading(c) == IsRead(op[c]) /\ pc[c] \in {"rheld", "rblocked"}

\* Context c is inside a refresh whose response was a success and decoded.
Storing(c) == IsRefresh(op[c]) /\ pc[c] \in {"wlock", "wwait", "w2"}

\* Context c has returned from its operation and holds or awaits no lock.
ReturnedFree(c) ==
  /\ pc[c] = "ret"
  /\ \A p \in Parts : ~HoldsLock(c, p) /\ ~WaitsLock(c, p)

\* C12: under fair scheduling every read call returns and every refresh
\* with a successful decoded response takes the write lock, stores and
\* returns; an operation leaves the lock only by returning, and then it
\* holds and awaits no lock.
C12_ProgressUnderContention ==
  /\ [][\A c \in Workers :
          /\ (Reading(c) /\ ~Reading(c)') => ReturnedFree(c)'
          /\ (Storing(c) /\ ~Storing(c)') =>
               (ReturnedFree(c)' /\ Successful(resp'[c]))]_vars
  /\ \A c \in Workers : (Reading(c) \/ Storing(c)) ~> ReturnedFree(c)

\* C12 happens: a writer has announced itself and waits for a reader that
\* holds the read lock of the same partition.
C12_Witness ==
  \E c, d \in Contexts : \E p \in Parts :
    /\ pc[c] = "wwait" /\ lock[p].w = c
    /\ pc[d] = "rheld" /\ d \in lock[p].readers

\* C12 happens on the readers' side: a reader is blocked behind a writer
\* that holds the lock.
C12_WitnessBlockedReader ==
  \E c, d \in Contexts : \E p \in Parts :
    /\ pc[c] = "w2" /\ lock[p].w = c
    /\ pc[d] = "rblocked" /\ d \in lock[p].rwait

(***************************************************************************)
(* C13: the credential gate at construction.                               *)
(***************************************************************************)
\* NewBinanceClient has returned a client to main.
ClientReturned == security # [PublicKey |-> <<>>, PrivateKey |-> <<>>]

\* Some HTTP request has been issued, or is being sent.
RequestIssued ==
  \/ issued # {}
  \/ \E c \in Contexts : pc[c] = "inflight" \/ ~req[c].nil

\* No operation of a client has begun.
NoClientUse ==
  /\ issued = {}
  /\ \A c \in Contexts : pc[c] = "idle" /\ op[c] = "none" /\ req[c].nil
  /\ \A w \in Workers : hpc[w] = "idle"

\* C13: with either key empty in the environment the constructor ends the
\* process and no client exists; whenever an HTTP request is issued both
\* stored keys are non-empty, and a request carries the public key in its
\* header; the stored credentials never change once the client exists.
C13_CredentialGate ==
  /\ []((MissingKey(env.B_PRIVATE_KEY, env.B_PUBLIC_KEY) /\ mpc # "new")
          => (mpc = "exit" /\ ~ClientReturned /\ NoClientUse))
  /\ [](RequestIssued
          => /\ Len(security.PrivateKey) > 0 /\ Len(security.PublicKey) > 0
             /\ \A c \in Contexts :
                  ~req[c].nil => req[c].apikey = security.PublicKey)
  /\ [](ClientReturned
          => security = [PublicKey |-> env.B_PUBLIC_KEY,
                         PrivateKey |-> env.B_PRIVATE_KEY])
  /\ [][ClientReturned => security' = security]_vars

\* A request is on its way with both keys present.
C13_Witness ==
  /\ pc[Main] = "inflight"
  /\ ~req[Main].nil
  /\ Len(req[Main].apikey) > 0
  /\ ClientReturned

\* The constructor has ended the process for a missing key.
C13_WitnessAbort ==
  /\ mpc = "exit"
  /\ MissingKey(env.B_PRIVATE_KEY, env.B_PUBLIC_KEY)
  /\ ~ClientReturned

(***************************************************************************)
(* C14: a failed refresh is not fatal, and reads never fail.               *)
(***************************************************************************)
\* A refresh called by main has come back from a failed exchange.
FailedReturn ==
  /\ mpc \in {"funding", "spot"}
  /\ pc[Main] = "ret"
  /\ Failed(resp[Main])

\* Every sequence of assets a slice can hold.
AssetSeqs == UNION {[1..n -> AssetVals] : n \in 0..(MaxAssets + MaxMuts)}

\* C14: a refresh that fails (transport error, status other than 200,
\* undecodable body) returns no error value and leaves the process running,
\* main's next step after it is the next refresh or serving, and the
\* process ends only in the constructor or at the status gate; a read never
\* fails and hands its caller a sequence, possibly empty.
C14_FailuresNotFatal ==
  /\ [](FailedReturn => (ret[Main] = NoRet /\ Alive /\ ENABLED MainNext))
  /\ [][(FailedReturn /\ mpc' # mpc)
          => mpc' = (IF mpc = "funding" THEN "spot" ELSE "serving")]_vars
  /\ [](\A c \in Contexts : pc[c] # "panic")
  /\ [](mpc = "exit" => issued \subseteq {"GetSystemStatus"})
  /\ [](\A c \in Workers :
          (IsRead(op[c]) /\ pc[c] = "ret")
            => (ret[c] = NoRet /\ Returned(c) \in AssetSeqs))

\* The spot refresh has failed and main is about to start serving.
C14_Witness ==
  /\ FailedReturn
  /\ mpc = "spot"
  /\ resp[Main].kind = "http" /\ resp[Main].code # StatusOK

\* A scrape reads an empty sequence once both startup refreshes were issued.
C14_WitnessRead ==
  \E c \in Workers :
    /\ mpc = "serving" /\ IsRead(op[c]) /\ pc[c] = "ret"
    /\ Returned(c) = <<>>

(***************************************************************************)
(* C15: when GetSystemStatus answers Online.                               *)
(***************************************************************************)
\* GetSystemStatus has returned (Online, nil) to context c.
AnsweredOnline(c) ==
  /\ pc[c] = "ret"
  /\ op[c] = "GetSystemStatus"
  /\ ret[c] = [status |-> Online, err |-> "nil"]

\* C15: GetSystemStatus returns (Online, nil) only for a response with
\* status code 200 whose body carries the status field with value 0; a
\* response with another status code, or a body without the field, never
\* yields Online.
C15_GateFailsClosed ==
  \A c \in Contexts :
    AnsweredOnline(c) =>
      /\ resp[c].kind = "http"
      /\ resp[c].code = StatusOK
      /\ resp[c].ok
      /\ resp[c].status = Online

\* Online was answered for a response that is not a 200.
C15_OnlineFromNon200 ==
  \E c \in Contexts : AnsweredOnline(c) /\ resp[c].code # StatusOK

\* Online was answered for a 200 whose body has no status field.
C15_OnlineFromAbsentField ==
  \E c \in Contexts :
    AnsweredOnline(c) /\ resp[c].code = StatusOK /\ resp[c].status = None

(***************************************************************************)
(* C16: no network I/O under a lock.                                       *)
(***************************************************************************)
\* Context c is building its request or waiting for httpclient.Do.
OnNetwork(c) == pc[c] = "inflight" \/ ~req[c].nil

\* Context c holds or awaits some partition's lock.
InLock(c) == \E p \in Parts : HoldsLock(c, p) \/ WaitsLock(c, p)

\* C16: a refresh builds, sends and decodes before it takes the write lock
\* and holds the lock only for the assignment; a read holds the read lock
\* only while it copies.  No context that waits on the network holds or
\* awaits a lock, and a blocked reader waits only for a writer that has its
\* decoded response in hand, which in turn waits only for readers that are
\* copying.
C16_NoNetworkUnderLock ==
  /\ \A c \in Contexts : OnNetwork(c) => ~InLock(c)
  /\ \A c \in Contexts : pc[c] \in {"idle", "wlock", "ret"} => ~InLock(c)
  /\ \A c \in Contexts : \A p \in Parts :
       /\ lock[p].w = c =>
            /\ pc[c] \in {"wwait", "w2"} /\ IsRefresh(op[c]) /\ LockOf(op[c]) = p
            /\ Storable(resp[c]) /\ req[c].nil
       /\ c \in lock[p].readers =>
            pc[c] = "rheld" /\ IsRead(op[c]) /\ LockOf(op[c]) = p
       /\ c \in lock[p].rwait =>
            /\ pc[c] = "rblocked" /\ IsRead(op[c]) /\ LockOf(op[c]) = p
            /\ lock[p].w \in Contexts
  /\ \A c \in Contexts :
       pc[c] = "wlock" => (Storable(resp[c]) /\ req[c].nil)

\* A round trip to refresh partition p is under way while a reader copies
\* from p under its read lock.
C16_Witness ==
  \E c, d \in Contexts : \E p \in Parts :
    /\ pc[c] = "inflight" /\ IsRefresh(op[c]) /\ LockOf(op[c]) = p
    /\ pc[d] = "rheld" /\ d \in lock[p].readers

\* A reader is blocked, behind a writer that is in its assignment.
C16_WitnessBlocked ==
  \E c, d \in Contexts : \E p \in Parts :
    /\ pc[d] = "rblocked" /\ d \in lock[p].rwait
    /\ lock[p].w = c /\ pc[c] = "w2" /\ req[c].nil

(***************************************************************************)
(* C17: the order of startup.                                              *)
(***************************************************************************)
\* The steps main's position may take: construction, gate, funding refresh,
\* spot refresh, serving, or the end of the process from the first two.
StartupOrder ==
  {<<"new", "gate">>, <<"gate", "funding">>, <<"funding", "spot">>,
   <<"spot", "serving">>, <<"new", "exit">>, <<"gate", "exit">>}

\* Operation o has been called by main and has not returned.
MainIn(o) == op[Main] = o /\ pc[Main] # "idle"

\* C17: main's events come in the order construction, status-gate request,
\* funding refresh, spot refresh, start of serving.  No request before the
\* client exists; no funding or spot request is issued before the gate has
\* returned (Online, nil); the spot refresh follows the return of the
\* funding refresh; serving, and with it every scrape, starts only when
\* both refresh calls have been made and have returned.
C17_StartupOrdering ==
  /\ [][mpc' # mpc => <<mpc, mpc'>> \in StartupOrder]_vars
  /\ []((issued # {} \/ pc[Main] # "idle") => ClientReturned)
  /\ []((MainIn("GetSystemStatus") \/ "GetSystemStatus" \in issued)
          => mpc # "new")
  /\ []((MainIn("GetFundingWallet") \/ "GetFundingWallet" \in issued)
          => /\ "GetSystemStatus" \in issued
             /\ ss = Online /\ err = "nil"
             /\ mpc \in {"funding", "spot", "serving"})
  /\ []((MainIn("GetUserAssets") \/ "GetUserAssets" \in issued)
          => /\ "GetFundingWallet" \in issued
             /\ ~MainIn("GetFundingWallet")
             /\ mpc \in {"spot", "serving"})
  /\ []((mpc = "serving" \/ \E w \in Workers : hpc[w] # "idle" \/ pc[w] # "idle")
          => /\ mpc = "serving"
             /\ issued = RequestOps
             /\ pc[Main] = "idle" /\ op[Main] = "none")

\* Serving has started after the gate answered Online and both refreshes
\* were made, and a scrape is being handled.
C17_Witness ==
  /\ mpc = "serving"
  /\ issued = RequestOps
  /\ ss = Online /\ err = "nil"
  /\ \E w \in Workers : hpc[w] = "spot"

\* The spot refresh is under way after the funding refresh stored a list.
C17_WitnessSpot ==
  /\ mpc = "spot"
  /\ MainIn("GetUserAssets") /\ pc[Main] = "inflight"
  /\ Snapshot(DataOf("GetFundingWallet")) # <<>>

(***************************************************************************)
(* C18: serving only reads the cache.                                      *)
(***************************************************************************)
\* A scrape's read of partition p has returned to handler w.
ScrapeRead(w, p) ==
  /\ mpc = "serving"
  /\ pc[w] = "ret" /\ IsRead(op[w]) /\ DataOf(op[w]) = p

\* C18: a /metrics handler calls GetFundingAssets and GetSpotAssets and
\* nothing else; once serving has begun no step changes what either
\* partition stores; every scrape's read returns that stored sequence, the
\* one the startup refresh of the partition left, so any two scrapes see
\* the same funding and the same spot snapshot.
C18_ServingIsReadOnly ==
  /\ [](\A w \in Workers :
          /\ op[w] \in ReadOps \cup {"none"}
          /\ hpc[w] = "funding" => op[w] = "GetFundingAssets"
          /\ hpc[w] = "spot" => op[w] = "GetSpotAssets"
          /\ hpc[w] \in {"idle", "between"} => op[w] = "none")
  /\ [][mpc = "serving"
          => /\ mpc' = "serving"
             /\ store' = store
             /\ \A p \in Parts : Snapshot(p)' = Snapshot(p)]_vars
  /\ [](mpc = "serving"
          => /\ \A p \in Parts : Snapshot(p) = Assigned(p)
             /\ \A c \in Contexts : ~IsRefresh(op[c]))
  /\ [](\A w \in Workers : \A p \in Parts :
          ScrapeRead(w, p) => Returned(w) = Snapshot(p))
  /\ [](\A v, w \in Workers : \A p \in Parts :
          (ScrapeRead(v, p) /\ ScrapeRead(w, p)) => Returned(v) = Returned(w))

\* Two scrapes hold the funding snapshot, a list the funding refresh
\* stored at startup.
C18_Witness ==
  \E v, w \in Workers :
    /\ v # w
    /\ ScrapeRead(v, DataOf("GetFundingWallet"))
    /\ ScrapeRead(w, DataOf("GetFundingWallet"))
    /\ Returned(v) # <<>>

\* A scrape holds the spot snapshot after an earlier scrape has finished.
C18_WitnessSpot ==
  \E v, w \in Workers :
    /\ v # w
    /\ ScrapeRead(v, DataOf("GetUserAssets"))
    /\ Returned(v) # <<>>
    /\ hpc[w] = "between"

=============================================================================
